---- MODULE Spec2Model ----
\* Authentication and authorization core of the academic records backend:
\* credential store (Admin / Teacher / Student collections), reset-token store,
\* AuthService, the protect middleware and the permission gates.
EXTENDS Integers, FiniteSets, Sequences, TLC

\* ---------------------------------------------------------------- bounds
\* ObjectIds handed out to identities are unbounded; the model stops at MaxUsers.
MaxUsers == 2
\* Reset tokens (and raw secrets) created are unbounded; the model stops here.
MaxTokens == 1
\* The clock runs 0..MaxTime.
MaxTime == 2

\* ------------------------------------------------------ program constants
\* JWT_EXPIRE default '7d', in clock ticks.
SessionTTL == 2
\* Reset-token window 60 * 60 * 1000 ms, in clock ticks.
ResetTTL == 1
\* "Only allow up to two admin accounts in the system".
AdminCap == 2

ROLES == {"admin", "teacher", "student"}

\* Object.entries(userModels): the order findUserByEmail probes the collections.
userModels == <<"admin", "teacher", "student">>

ALLOWED_ROLES == ROLES

ROLE_HIERARCHY == [r \in ROLES |-> CASE r = "admin" -> 3 [] r = "teacher" -> 2 [] OTHER -> 1]

Procs == {"p1", "p2"}

\* ------------------------------------------------------------ input sets
Emails == {"a@x.com", "A@x.com", "b@x.com"}
PlainTexts == {"pw1", "pw2"}
Salts == {"s1", "s2"}
\* The role of a request body: a role, another word, or no role field at all
\* ("undefined").
RoleInputs == ROLES \cup {"guest", "undefined"}
Permissions == {"manage_users", "manage_settings"}
\* additionalData of a registration: roleType / permissions reach the Admin schema.
DefaultExtra == [roleType |-> "academic_admin", permissions |-> {}]

RegExtras == {DefaultExtra, [roleType |-> "super_admin", permissions |-> {}], [roleType |-> "academic_admin", permissions |-> {"manage_users"}]}

\* ------------------------------------------------------------ strings
\* schema option lowercase: true (also applied to query filters).
Lowercase(e) == IF e = "A@x.com" THEN "a@x.com" ELSE e

\* A password-valued string: a plaintext (depth 0) or a bcrypt hash of one
\* (depth >= 1).  salt is "" for a plaintext.
Plain(t) == [text |-> t, salt |-> "", depth |-> 0]

\* The value of a field that the query projection left out (select: false).
Undefined == [text |-> "undefined", salt |-> "", depth |-> -1]

Passwords == {Plain(t) : t \in PlainTexts}

\* bcrypt.hash(value, salt)
BcryptHash(v, s) == [text |-> v.text, salt |-> s, depth |-> v.depth + 1]

\* bcrypt.compare(s, hash): "throw" on a non-string argument, otherwise whether
\* hash is a bcrypt hash of s (a string that is no bcrypt hash compares false).
BcryptCompare(s, hash) == IF s = Undefined \/ hash = Undefined THEN "throw" ELSE IF hash.depth >= 1 /\ hash.depth = s.depth + 1 /\ hash.text = s.text THEN "true" ELSE "false"

\* /^\$2[aby]\$/ : the stored value already looks like a bcrypt hash.
LooksHashed(v) == v.depth >= 1 \/ v.text = "$2a$pw"

\* A plaintext password that itself begins with '$2a$'.
HashLikePlain == [text |-> "$2a$pw", salt |-> "", depth |-> 0]

\* A pre('save') hook that hashes whatever value it is given.
PreSavePasswordAlways(v, s) == BcryptHash(v, s)

\* pre('save') of the three identity schemas, for a modified password.
PreSavePassword(v, s) == IF LooksHashed(v) THEN v ELSE BcryptHash(v, s)

\* ------------------------------------------------------------ session tokens
NoJwt == [id |-> 0, role |-> "none", exp |-> 0, sig |-> "none"]

\* jwt.sign({id, role}, JWT_SECRET, {expiresIn})
generateToken(id, role, t) == [id |-> id, role |-> role, exp |-> t + SessionTTL, sig |-> "server"]

\* A verification that gives up one tick before the expiry of the token.
verifyTokenEarly(tok, t) == tok.sig = "server" /\ t + 1 < tok.exp

\* jwt.verify: the signature is the server's and the token is not expired
\* (expired when clock >= exp).
verifyToken(tok, t) == tok.sig = "server" /\ t < tok.exp

\* The error jwt.verify throws: JsonWebTokenError for a malformed or wrongly
\* signed token, TokenExpiredError for an expired one, "none" when it verifies.
JwtVerifyError(tok, t) == IF tok.sig # "server" THEN "JsonWebTokenError" ELSE IF t >= tok.exp THEN "TokenExpiredError" ELSE "none"

\* AuthService.verifyToken's catch: whatever jwt.verify threw is replaced by
\* ErrorResponse('Invalid token', 401); the message of what is thrown.
VerifyTokenThrows(tok, t) == IF JwtVerifyError(tok, t) = "none" THEN "none" ELSE "Invalid token"

\* protect's catch block, first branch: the message 'Invalid token' (or a jwt
\* error name) is answered 401 '... - invalid token'; anything else falls
\* through to the plain 401.
ProtectCatch(message) == IF message \in {"Invalid token", "JsonWebTokenError", "TokenExpiredError"} THEN "invalid_token" ELSE "not_authorized"

\* ------------------------------------------------------------ state
VARIABLES users, tokens, now, nextId, nextTok, pc, quota, req, loc, resp

vars == <<users, tokens, now, nextId, nextTok, pc, quota, req, loc, resp>>

NoUser == [id |-> 0, coll |-> "none", email |-> "", password |-> Undefined, roleType |-> "none", permissions |-> {}, serial |-> 0]

NoTokenDoc == [id |-> 0, user |-> 0, userModel |-> "none", token |-> [h |-> 0, v |-> 0], used |-> FALSE, expiresAt |-> 0]

\* What Model.findById answers in isOwnerOrAdmin: null, or a document whose
\* user field and [modelName.toLowerCase()] field hold an identity's id (0: the
\* document has no such field).
NoResource == [found |-> FALSE, user |-> 0, owner |-> 0]

NoReq == [op |-> "none", email |-> "", password |-> Undefined, newPassword |-> Undefined, role |-> "none", extra |-> [roleType |-> "none", permissions |-> {}], secret |-> [h |-> 0, v |-> 0], scheme |-> "none", jwt |-> NoJwt, cookie |-> NoJwt, gate |-> "none", perms |-> {}, roles |-> {}, resource |-> NoResource, id |-> 0, down |-> {}]

NoReqUser == [id |-> 0, email |-> "", role |-> "none"]

NoLoc == [hashed |-> Undefined, serial |-> 0, doc |-> NoTokenDoc, user |-> NoUser, reqUser |-> NoReqUser]

NoResp == [status |-> 0, err |-> "none", token |-> NoJwt, id |-> 0, email |-> "", role |-> "none"]

Pending == NoResp

Fail(status, err) == [NoResp EXCEPT !.status = status, !.err = err]

\* ------------------------------------------------------------ credential store
\* Model.findOne({ email }) on one collection.
InCollection(role, email) == {u \in users : u.coll = role /\ u.email = Lowercase(email)}

\* The loop of findUserByEmail from the i-th collection on.  down is the set of
\* collections whose findOne throws during this call: the catch block logs the
\* error and the loop goes on to the next collection.
RECURSIVE FirstMatch(_, _, _)
FirstMatch(i, email, down) == IF i > Len(userModels) THEN NoUser ELSE IF userModels[i] \notin down /\ InCollection(userModels[i], email) # {} THEN CHOOSE u \in InCollection(userModels[i], email) : TRUE ELSE FirstMatch(i + 1, email, down)

\* AuthService.findUserByEmail: first match over admin, teacher, student
\* (with the password selected).  NoUser when nothing matches.
findUserByEmail(email, down) == FirstMatch(1, email, down)

\* The sets of collections that may fail during one lookup.
Outages == SUBSET ROLES

\* AuthService.findUserById: the collection is chosen by role; the password is
\* not selected (select: false), so the loaded document carries none.
findUserById(id, role) == IF role \notin ROLES \/ {u \in users : u.coll = role /\ u.id = id} = {} THEN NoUser ELSE [(CHOOSE u \in users : u.coll = role /\ u.id = id) EXCEPT !.password = Undefined]

\* generateStudentId / generateEmployeeId: highest serial of the collection + 1.
Max(S) == IF S = {} THEN 0 ELSE CHOOSE x \in S : \A y \in S : y <= x

generateSerial(role) == Max({u.serial : u \in {w \in users : w.coll = role}}) + 1

InFlightRegs == Cardinality({p \in Procs : pc[p] \in {"reg_find", "reg_genid", "reg_insert"}})

\* A process starts a request: it is idle and has calls left (-1: unlimited).
CanStart(p) == pc[p] = "idle" /\ quota[p] # 0

Spend(p) == IF quota[p] > 0 THEN [quota EXCEPT ![p] = @ - 1] ELSE quota

\* ------------------------------------------------------------ register
\* POST /auth/register, controller part: role validation and the admin cap
\* (Admin.countDocuments), then AuthService.register.
RegisterStart(p, email, password, role, extra) ==
    /\ CanStart(p)
    /\ nextId + InFlightRegs <= MaxUsers
    /\ quota' = Spend(p)
    /\ req' = [req EXCEPT ![p] = [NoReq EXCEPT !.op = "register", !.email = email, !.password = password, !.role = role, !.extra = extra]]
    /\ loc' = [loc EXCEPT ![p] = NoLoc]
    /\ IF role \notin ALLOWED_ROLES
       THEN /\ resp' = [resp EXCEPT ![p] = Fail(400, "invalid_role")]
            /\ pc' = pc
       ELSE IF role = "admin" /\ Cardinality({u \in users : u.coll = "admin"}) >= AdminCap
       THEN /\ resp' = [resp EXCEPT ![p] = Fail(403, "admin_limit")]
            /\ pc' = pc
       ELSE /\ resp' = [resp EXCEPT ![p] = Pending]
            /\ pc' = [pc EXCEPT ![p] = "reg_find"]
    /\ UNCHANGED <<users, tokens, now, nextId, nextTok>>

\* AuthService.register up to Model.create: the existence check over the three
\* collections, the role-to-model lookup and the explicit bcrypt hash.
RegisterFind(p, s, down) ==
    /\ pc[p] = "reg_find"
    /\ req' = [req EXCEPT ![p].down = down]
    /\  IF findUserByEmail(req[p].email, down) # NoUser
        THEN /\ resp' = [resp EXCEPT ![p] = Fail(400, "exists")]
             /\ pc' = [pc EXCEPT ![p] = "idle"]
             /\ loc' = loc
        ELSE IF req[p].role \notin ROLES
        THEN /\ resp' = [resp EXCEPT ![p] = Fail(400, "invalid_role")]
             /\ pc' = [pc EXCEPT ![p] = "idle"]
             /\ loc' = loc
        ELSE /\ loc' = [loc EXCEPT ![p].hashed = BcryptHash(req[p].password, s)]
             /\ pc' = [pc EXCEPT ![p] = IF req[p].role = "admin" THEN "reg_insert" ELSE "reg_genid"]
             /\ resp' = resp
    /\ UNCHANGED <<users, tokens, now, nextId, nextTok, quota>>

\* Model.create, pre('save') of Student / Teacher: read the highest
\* studentId / employeeId and take the next one.
RegisterGenId(p) ==
    /\ pc[p] = "reg_genid"
    /\ loc' = [loc EXCEPT ![p].serial = generateSerial(req[p].role)]
    /\ pc' = [pc EXCEPT ![p] = "reg_insert"]
    /\ UNCHANGED <<users, tokens, now, nextId, nextTok, quota, req, resp>>

\* ------------------------------------------------------------ permissions
\* The permission strings a body may carry: canonical values, legacy aliases
\* (one of them capitalised), and values that are neither.
PermissionInputs == {"manage_users", "manage_settings", "settings", "Settings", "users", "foo", "constructor"}

\* String(value).toLowerCase()
PermLower(v) == IF v = "Settings" THEN "settings" ELSE v

\* PERMISSION_ALIASES, the aliases of the permissions of the model.
PERMISSION_ALIASES == ("system_settings" :> "manage_settings") @@ ("settings" :> "manage_settings") @@ ("users" :> "manage_users")

\* The properties every object literal inherits from Object.prototype.
InheritedKeys == {"constructor", "__proto__"}

\* obj[key] for an object literal: own properties first, then the inherited
\* ones (a function or an object, written here as a string no permission
\* equals), undefined ("") otherwise.
PropertyOf(obj, key) == IF key \in DOMAIN obj THEN obj[key] ELSE IF key \in InheritedKeys THEN "[object]" ELSE ""

\* normalizePermission(value)
normalizePermission(value) == IF value = "" THEN value ELSE IF PermLower(value) \in Permissions THEN PermLower(value) ELSE IF PropertyOf(PERMISSION_ALIASES, PermLower(value)) # "" THEN PropertyOf(PERMISSION_ALIASES, PermLower(value)) ELSE value

\* permissions.map(normalizePermission).filter(Boolean), in pre('validate')
\* and pre('findOneAndUpdate').
NormalizePermissions(perms) == {normalizePermission(v) : v \in perms} \ {""}

\* The enum validator of permissions.
ValidPermissions(perms) == perms \subseteq Permissions

\* The document Model.create inserts: email lowercased, password through the
\* pre('save') hook, roleType / permissions kept by the Admin schema only.
NewIdentity(p, s) == [id |-> nextId, coll |-> req[p].role, email |-> Lowercase(req[p].email), password |-> PreSavePassword(loc[p].hashed, s), roleType |-> IF req[p].role = "admin" THEN req[p].extra.roleType ELSE "none", permissions |-> IF req[p].role = "admin" THEN NormalizePermissions(req[p].extra.permissions) ELSE {}, serial |-> loc[p].serial]

\* The unique indexes of one collection: email, and studentId / employeeId.
DuplicateKey(doc) == \E u \in users : u.coll = doc.coll /\ (u.email = doc.email \/ (doc.serial # 0 /\ u.serial = doc.serial))

\* Model.create, the insert, and the rest of AuthService.register: a duplicate
\* key error reaches asyncHandler, which answers 500; otherwise 201 and a token.
RegisterInsert(p, s) ==
    /\ pc[p] = "reg_insert"
    /\  LET doc == NewIdentity(p, s) IN
        IF ~ValidPermissions(doc.permissions)
        THEN /\ resp' = [resp EXCEPT ![p] = Fail(400, "validation_failed")]
             /\ UNCHANGED <<users, nextId>>
        ELSE IF DuplicateKey(doc)
        THEN /\ resp' = [resp EXCEPT ![p] = Fail(500, "server_error")]
             /\ UNCHANGED <<users, nextId>>
        ELSE /\ users' = users \cup {doc}
             /\ nextId' = nextId + 1
             /\ resp' = [resp EXCEPT ![p] = [status |-> 201, err |-> "none", token |-> generateToken(doc.id, req[p].role, now), id |-> doc.id, email |-> doc.email, role |-> req[p].role]]
    /\ pc' = [pc EXCEPT ![p] = "idle"]
    /\ UNCHANGED <<tokens, now, nextTok, quota, req, loc>>

\* ------------------------------------------------------------ login
\* AuthService.login: 404 when no collection holds the email, 401 when the
\* password does not compare, otherwise the identity and a session token.
LoginOutcome(email, password, t, down) ==
    LET user == findUserByEmail(email, down)
        isMatch == BcryptCompare(password, user.password)
    IN  IF user = NoUser THEN Fail(404, "not_found")
        ELSE IF isMatch = "throw" THEN Fail(500, "server_error")
        ELSE IF isMatch = "false" THEN Fail(401, "incorrect_password")
        ELSE [status |-> 200, err |-> "none", token |-> generateToken(user.id, user.coll, t), id |-> user.id, email |-> user.email, role |-> user.coll]

\* POST /auth/login
Login(p, email, password, down) ==
    /\ CanStart(p)
    /\ quota' = Spend(p)
    /\ req' = [req EXCEPT ![p] = [NoReq EXCEPT !.op = "login", !.email = email, !.password = password, !.down = down]]
    /\ resp' = [resp EXCEPT ![p] = LoginOutcome(email, password, now, down)]
    /\ loc' = [loc EXCEPT ![p] = NoLoc]
    /\ UNCHANGED <<users, tokens, now, nextId, nextTok, pc>>

\* ------------------------------------------------------------ change password
\* user.password = hashedPassword; user.save(): the stored document of that id
\* gets the value the pre('save') hook leaves.
SavePassword(id, hashed, s) == {IF u.id = id THEN [u EXCEPT !.password = PreSavePassword(hashed, s)] ELSE u : u \in users}

\* AuthService.changePassword, called with the id and role of req.user.
ChangePassword(p, id, role, currentPassword, newPassword, s) ==
    /\ CanStart(p)
    /\ quota' = Spend(p)
    /\ req' = [req EXCEPT ![p] = [NoReq EXCEPT !.op = "changePassword", !.id = id, !.role = role, !.password = currentPassword, !.newPassword = newPassword]]
    /\ loc' = [loc EXCEPT ![p] = NoLoc]
    /\ LET user == findUserById(id, role)
           isMatch == BcryptCompare(currentPassword, user.password)
       IN  IF user = NoUser
           THEN resp' = [resp EXCEPT ![p] = Fail(404, "not_found")] /\ users' = users
           ELSE IF isMatch = "throw"
           THEN resp' = [resp EXCEPT ![p] = Fail(500, "server_error")] /\ users' = users
           ELSE IF isMatch = "false"
           THEN resp' = [resp EXCEPT ![p] = Fail(400, "incorrect_password")] /\ users' = users
           ELSE /\ users' = SavePassword(id, BcryptHash(newPassword, s), s)
                /\ resp' = [resp EXCEPT ![p] = [NoResp EXCEPT !.status = 200]]
    /\ UNCHANGED <<tokens, now, nextId, nextTok, pc>>

\* ------------------------------------------------------------ update user
\* PUT /auth/users/:id (behind protect and authorize('admin')): the identity
\* is looked up in the collection of the caller's role, the body is assigned
\* onto it and it is saved. email = "" and password = Undefined stand for a
\* body without that field; the pre('save') hook runs only for a modified
\* password; a duplicate key error reaches asyncHandler, which answers 500.
Updated(u, email, password, s) == [u EXCEPT !.email = IF email = "" THEN @ ELSE Lowercase(email), !.password = IF password = Undefined THEN @ ELSE PreSavePassword(password, s)]

UpdateUser(p, callerRole, id, email, password, s) ==
    /\ CanStart(p)
    /\ quota' = Spend(p)
    /\ req' = [req EXCEPT ![p] = [NoReq EXCEPT !.op = "updateUser", !.id = id, !.role = callerRole, !.email = email, !.password = password]]
    /\ loc' = [loc EXCEPT ![p] = NoLoc]
    /\ IF findUserById(id, callerRole) = NoUser
       THEN users' = users /\ resp' = [resp EXCEPT ![p] = Fail(404, "not_found")]
       ELSE LET old == CHOOSE u \in users : u.id = id /\ u.coll = callerRole
                new == Updated(old, email, password, s)
            IN  IF \E u \in users \ {old} : u.coll = new.coll /\ u.email = new.email
                THEN users' = users /\ resp' = [resp EXCEPT ![p] = Fail(500, "server_error")]
                ELSE users' = (users \ {old}) \cup {new} /\ resp' = [resp EXCEPT ![p] = [NoResp EXCEPT !.status = 200, !.id = id, !.email = new.email, !.role = callerRole]]
    /\ UNCHANGED <<tokens, now, nextId, nextTok, pc>>

\* ------------------------------------------------------------ admin create
\* The document new Model(userData).save() / Teacher.create inserts for a body
\* with email and password: the password goes through the pre('save') hook
\* only, the serial comes from the studentId / employeeId hook.
CreatedIdentity(email, password, role, s) == [id |-> nextId, coll |-> role, email |-> Lowercase(email), password |-> PreSavePassword(password, s), roleType |-> IF role = "admin" THEN "academic_admin" ELSE "none", permissions |-> {}, serial |-> generateSerial(role)]

\* createUser of the admin controller: the email is looked up in the three
\* collections, then the document is saved; the handler's own catch answers
\* 500 for a duplicate key.
CreateUser(p, email, password, role, s) ==
    /\ CanStart(p)
    /\ nextId + InFlightRegs <= MaxUsers
    /\ quota' = Spend(p)
    /\ req' = [req EXCEPT ![p] = [NoReq EXCEPT !.op = "createUser", !.email = email, !.password = password, !.role = role]]
    /\ loc' = [loc EXCEPT ![p] = NoLoc]
    /\ IF role \notin ROLES
       THEN resp' = [resp EXCEPT ![p] = Fail(400, "invalid_role")] /\ UNCHANGED <<users, nextId>>
       ELSE IF \E r \in ROLES : InCollection(r, email) # {}
       THEN resp' = [resp EXCEPT ![p] = Fail(400, "exists")] /\ UNCHANGED <<users, nextId>>
       ELSE IF DuplicateKey(CreatedIdentity(email, password, role, s))
       THEN resp' = [resp EXCEPT ![p] = Fail(500, "server_error")] /\ UNCHANGED <<users, nextId>>
       ELSE /\ users' = users \cup {CreatedIdentity(email, password, role, s)}
            /\ nextId' = nextId + 1
            /\ resp' = [resp EXCEPT ![p] = [NoResp EXCEPT !.status = 201, !.id = nextId, !.email = Lowercase(email), !.role = role]]
    /\ UNCHANGED <<tokens, now, nextTok, pc>>

\* createTeacher (POST /api/teachers, for an admin caller): the email is
\* looked up in the Teacher collection only, then Teacher.create.
CreateTeacher(p, email, password, s) ==
    /\ CanStart(p)
    /\ nextId + InFlightRegs <= MaxUsers
    /\ quota' = Spend(p)
    /\ req' = [req EXCEPT ![p] = [NoReq EXCEPT !.op = "createTeacher", !.email = email, !.password = password, !.role = "teacher"]]
    /\ loc' = [loc EXCEPT ![p] = NoLoc]
    /\ IF InCollection("teacher", email) # {}
       THEN resp' = [resp EXCEPT ![p] = Fail(400, "exists")] /\ UNCHANGED <<users, nextId>>
       ELSE IF DuplicateKey(CreatedIdentity(email, password, "teacher", s))
       THEN resp' = [resp EXCEPT ![p] = Fail(500, "server_error")] /\ UNCHANGED <<users, nextId>>
       ELSE /\ users' = users \cup {CreatedIdentity(email, password, "teacher", s)}
            /\ nextId' = nextId + 1
            /\ resp' = [resp EXCEPT ![p] = [NoResp EXCEPT !.status = 201, !.id = nextId, !.email = Lowercase(email), !.role = "teacher"]]
    /\ UNCHANGED <<tokens, now, nextTok, pc>>

\* ------------------------------------------------------------ admin update
\* PUT of the admin controller: the id is looked up in the three collections,
\* password and role are taken out of the body and the rest goes to
\* Model.findByIdAndUpdate with runValidators; pre('findOneAndUpdate') of the
\* Admin schema normalizes permissions first. setPerms tells whether the body
\* carries permissions; any error is answered 500 by the handler's own catch.
AdminUpdateUser(p, id, email, setPerms, perms) ==
    /\ CanStart(p)
    /\ quota' = Spend(p)
    /\ req' = [req EXCEPT ![p] = [NoReq EXCEPT !.op = "adminUpdateUser", !.id = id, !.email = email, !.extra = [roleType |-> IF setPerms THEN "set" ELSE "none", permissions |-> perms]]]
    /\ loc' = [loc EXCEPT ![p] = NoLoc]
    /\ IF ~(\E u \in users : u.id = id)
       THEN users' = users /\ resp' = [resp EXCEPT ![p] = Fail(404, "not_found")]
       ELSE LET old == CHOOSE u \in users : u.id = id
                new == [old EXCEPT !.email = IF email = "" THEN @ ELSE Lowercase(email), !.permissions = IF setPerms /\ old.coll = "admin" THEN NormalizePermissions(perms) ELSE @]
            IN  IF ~ValidPermissions(new.permissions) \/ (\E u \in users \ {old} : u.coll = new.coll /\ u.email = new.email)
                THEN users' = users /\ resp' = [resp EXCEPT ![p] = Fail(500, "update_failed")]
                ELSE users' = (users \ {old}) \cup {new} /\ resp' = [resp EXCEPT ![p] = [NoResp EXCEPT !.status = 200, !.id = id, !.email = new.email, !.role = old.coll]]
    /\ UNCHANGED <<tokens, now, nextId, nextTok, pc>>

\* ------------------------------------------------------------ logout
\* POST /auth/logout: answers 200 and touches nothing.
Logout(p) ==
    /\ CanStart(p)
    /\ quota' = Spend(p)
    /\ req' = [req EXCEPT ![p] = [NoReq EXCEPT !.op = "logout"]]
    /\ loc' = [loc EXCEPT ![p] = NoLoc]
    /\ resp' = [resp EXCEPT ![p] = [NoResp EXCEPT !.status = 200]]
    /\ UNCHANGED <<users, tokens, now, nextId, nextTok, pc>>

\* ------------------------------------------------------------ delete user
\* admin deleteUser: the id is looked up in the three collections and the
\* document found is deleted; 404 when there is none.
DeleteUser(p, id) ==
    /\ CanStart(p)
    /\ quota' = Spend(p)
    /\ req' = [req EXCEPT ![p] = [NoReq EXCEPT !.op = "deleteUser", !.id = id]]
    /\ loc' = [loc EXCEPT ![p] = NoLoc]
    /\ IF \E u \in users : u.id = id
       THEN users' = {u \in users : u.id # id} /\ resp' = [resp EXCEPT ![p] = [NoResp EXCEPT !.status = 200]]
       ELSE users' = users /\ resp' = [resp EXCEPT ![p] = Fail(404, "not_found")]
    /\ UNCHANGED <<tokens, now, nextId, nextTok, pc>>

\* ------------------------------------------------------------ protect
\* The Authorization header: no header ("none"), or a scheme word ("Basic",
\* "Bearer", "BearerX") and what follows the first space.
\* authorization.startsWith('Bearer')
StartsWithBearer(scheme) == scheme \in {"Bearer", "BearerX"}

\* token = authorization.split(' ')[1] under startsWith('Bearer'); NoJwt is the
\* absent token.
ExtractToken(scheme, jwt) == IF StartsWithBearer(scheme) THEN jwt ELSE NoJwt

\* The session tokens a request may present: any claims, signed by the server or not.
JwtInputs == {[id |-> i, role |-> r, exp |-> e, sig |-> "server"] : i \in 1..MaxUsers, r \in ROLES, e \in {SessionTTL, MaxTime + SessionTTL}} \cup {[id |-> i, role |-> r, exp |-> MaxTime + SessionTTL, sig |-> "forged"] : i \in 1..MaxUsers, r \in ROLES}

\* The Authorization headers a request may carry: none, another scheme, the
\* bare word Bearer, or a scheme that starts with Bearer followed by a token.
Headers == {[scheme |-> "none", jwt |-> NoJwt], [scheme |-> "Bearer", jwt |-> NoJwt]} \cup {[scheme |-> "Basic", jwt |-> j] : j \in {k \in JwtInputs : k.id = 1 /\ k.sig = "server"}} \cup {[scheme |-> h, jwt |-> j] : h \in {"Bearer", "BearerX"}, j \in JwtInputs}

\* req.user as protect builds it.
ReqUser(user, decoded) == [id |-> user.id, email |-> user.email, role |-> decoded.role]

\* protect: extract the bearer token, verify it, load the identity by the
\* claims' id and role, attach req.user and call next().
Protect(p, scheme, jwt) ==
    /\ CanStart(p)
    /\ quota' = Spend(p)
    /\ req' = [req EXCEPT ![p] = [NoReq EXCEPT !.op = "route", !.scheme = scheme, !.jwt = jwt]]
    /\ LET token == ExtractToken(scheme, jwt)
           user == findUserById(token.id, token.role)
       IN  IF token = NoJwt
           THEN resp' = [resp EXCEPT ![p] = Fail(401, "no_token")] /\ pc' = pc /\ loc' = [loc EXCEPT ![p] = NoLoc]
           ELSE IF ~verifyToken(token, now)
           THEN resp' = [resp EXCEPT ![p] = Fail(401, ProtectCatch(VerifyTokenThrows(token, now)))] /\ pc' = pc /\ loc' = [loc EXCEPT ![p] = NoLoc]
           ELSE IF user = NoUser
           THEN resp' = [resp EXCEPT ![p] = Fail(401, "user_not_found")] /\ pc' = pc /\ loc' = [loc EXCEPT ![p] = NoLoc]
           ELSE /\ loc' = [loc EXCEPT ![p] = [NoLoc EXCEPT !.reqUser = ReqUser(user, token)]]
                /\ pc' = [pc EXCEPT ![p] = "gate"]
                /\ resp' = [resp EXCEPT ![p] = Pending]
    /\ UNCHANGED <<users, tokens, now, nextId, nextTok>>

\* ------------------------------------------------------------ refresh
\* req.headers.authorization?.split(' ')[1] || req.cookies?.token: the word
\* after the first space whatever the scheme, else the cookie.
RefreshTokenOf(scheme, jwt, cookie) == IF scheme # "none" /\ jwt # NoJwt THEN jwt ELSE cookie

\* AuthService.refreshToken without the identity lookup.
refreshTokenNoLookup(tok, t) ==
    IF ~verifyToken(tok, t) THEN Fail(401, "invalid_token")
    ELSE [status |-> 200, err |-> "none", token |-> generateToken(tok.id, tok.role, t), id |-> tok.id, email |-> "", role |-> tok.role]

\* AuthService.refreshToken: verify, load the identity of the claims, sign a
\* new token for its _id and the role of the claims.
refreshToken(tok, t) ==
    IF ~verifyToken(tok, t) THEN Fail(401, "invalid_token")
    ELSE IF findUserById(tok.id, tok.role) = NoUser THEN Fail(404, "user_not_found")
    ELSE [status |-> 200, err |-> "none", token |-> generateToken(findUserById(tok.id, tok.role).id, tok.role, t), id |-> findUserById(tok.id, tok.role).id, email |-> findUserById(tok.id, tok.role).email, role |-> tok.role]

\* POST /auth/refresh
Refresh(p, scheme, jwt, cookie) ==
    /\ CanStart(p)
    /\ quota' = Spend(p)
    /\ req' = [req EXCEPT ![p] = [NoReq EXCEPT !.op = "refreshToken", !.scheme = scheme, !.jwt = jwt, !.cookie = cookie]]
    /\ loc' = [loc EXCEPT ![p] = NoLoc]
    /\ resp' = [resp EXCEPT ![p] = IF RefreshTokenOf(scheme, jwt, cookie) = NoJwt THEN Fail(401, "no_token") ELSE refreshToken(RefreshTokenOf(scheme, jwt, cookie), now)]
    /\ pc' = pc
    /\ UNCHANGED <<users, tokens, now, nextId, nextTok>>

\* ------------------------------------------------------------ permission gates
\* req.user.roleType: undefined when req.user has no such field.
RoleTypeOf(u) == IF "roleType" \in DOMAIN u THEN u.roleType ELSE "undefined"

\* req.user.permissions?.includes(permission)
Includes(u, permission) == "permissions" \in DOMAIN u /\ permission \in u.permissions

\* Super admin bypasses all permission checks.
Bypass(u) == u.role = "admin" /\ RoleTypeOf(u) = "super_admin"

\* requirePermission(permission): TRUE when next() is called without error.
requirePermission(u, permission) == Bypass(u) \/ Includes(u, permission)

\* requireAnyPermission(...permissions)
requireAnyPermission(u, permissions) == Bypass(u) \/ \E q \in permissions : Includes(u, q)

GateKinds == {"none", "requirePermission", "requireAnyPermission"}

\* The names auth.controller.js exports.
AuthControllerExports == {"register", "login", "getMe", "changePassword", "forgotPassword", "resetPassword", "verifyResetToken", "updateUser", "refreshToken"}

\* import { ROLES } from '../controllers/auth.controller.js'
RbacImportsFromAuthController == {"ROLES"}

\* rbac.middleware.js is linked only if every name it imports is exported;
\* otherwise the import of the module is rejected and none of its middleware
\* is ever built.
RbacLoads == RbacImportsFromAuthController \subseteq AuthControllerExports

\* The identifiers bound in the scope of rbac.middleware.js.
RbacBindings == {"ROLES", "ADMIN_PERMISSIONS", "ErrorResponse", "ROLE_HIERARCHY"}

GatePasses(u, gate, perms) == CASE gate = "requirePermission" -> \A q \in perms : requirePermission(u, q) [] gate = "requireAnyPermission" -> requireAnyPermission(u, perms) [] OTHER -> TRUE

\* The gate that follows protect on the route, then the handler (200).
\* requirePermission takes one permission: perms is a singleton for it.
Gate(p, gate, perms) ==
    /\ pc[p] = "gate"
    /\ gate = "requirePermission" => Cardinality(perms) = 1
    /\ req' = [req EXCEPT ![p].gate = gate, ![p].perms = perms]
    /\ resp' = [resp EXCEPT ![p] = IF gate # "none" /\ ~RbacLoads THEN Fail(500, "rbac_not_linked") ELSE IF GatePasses(loc[p].reqUser, gate, perms) THEN [NoResp EXCEPT !.status = 200, !.id = loc[p].reqUser.id, !.email = loc[p].reqUser.email, !.role = loc[p].reqUser.role] ELSE Fail(403, "insufficient_permissions")]
    /\ pc' = [pc EXCEPT ![p] = "idle"]
    /\ UNCHANGED <<users, tokens, now, nextId, nextTok, quota, loc>>

\* ------------------------------------------------------------ role gates
\* Each gate as the status it leads to: 200 when next() is called without an
\* error, otherwise the status of the error handed to next().
\* authorize(...roles) of auth.middleware.js
authorize(u, roles) == IF u = NoReqUser THEN 401 ELSE IF u.role \notin roles THEN 403 ELSE 200

\* requireRole(...roles)
requireRole(u, roles) == IF u = NoReqUser THEN 401 ELSE IF u.role \notin roles THEN 403 ELSE 200

\* userRoleLevel < requiredRoleLevel: false when either level is undefined.
LevelBelow(role, minRole) == role \in DOMAIN ROLE_HIERARCHY /\ minRole \in DOMAIN ROLE_HIERARCHY /\ ROLE_HIERARCHY[role] < ROLE_HIERARCHY[minRole]

\* requireMinRole(minRole)
requireMinRole(u, minRole) == IF u = NoReqUser THEN 401 ELSE IF LevelBelow(u.role, minRole) THEN 403 ELSE 200

\* An ObjectId, and the string its toString() gives.
ObjectId(i) == [type |-> "ObjectId", v |-> i]

toString(o) == [type |-> "string", v |-> o.v]

\* a !== b
StrictNotEqual(a, b) == a.type # b.type \/ a.v # b.v

\* The documents Model.findById may answer.
Resources == {NoResource} \cup {[found |-> TRUE, user |-> i, owner |-> j] : i \in 0..MaxUsers, j \in 0..MaxUsers}

\* isOwnerOrAdmin(modelName, idParam): req.user.id is the ObjectId protect
\* copied from user._id; a throw inside the try reaches next(error) (500).
isOwnerOrAdmin(u, resource) ==
    IF u = NoReqUser THEN 500
    ELSE IF u.role = "admin" THEN 200
    ELSE IF "mongoose" \notin RbacBindings THEN 500
    ELSE IF ~resource.found THEN 404
    ELSE IF resource.user # 0 /\ StrictNotEqual(toString(ObjectId(resource.user)), ObjectId(u.id)) THEN 403
    ELSE IF resource.owner # 0 /\ StrictNotEqual(toString(ObjectId(resource.owner)), ObjectId(u.id)) THEN 403
    ELSE 200

RoleGateKinds == {"authorize", "requireRole", "requireMinRole", "isOwnerOrAdmin"}

\* The status a role gate leads to on a route that mounts it.
RoleGateStatus(u, gate, roles, resource) ==
    IF gate = "authorize" THEN authorize(u, roles)
    ELSE IF ~RbacLoads THEN 500
    ELSE IF gate = "requireRole" THEN requireRole(u, roles)
    ELSE IF gate = "requireMinRole" THEN requireMinRole(u, CHOOSE r \in roles : TRUE)
    ELSE isOwnerOrAdmin(u, resource)

\* A route that mounts a gate without protect before it: req.user is undefined.
Anonymous(p) ==
    /\ CanStart(p)
    /\ quota' = Spend(p)
    /\ req' = [req EXCEPT ![p] = [NoReq EXCEPT !.op = "open_route"]]
    /\ loc' = [loc EXCEPT ![p] = NoLoc]
    /\ resp' = [resp EXCEPT ![p] = Pending]
    /\ pc' = [pc EXCEPT ![p] = "gate"]
    /\ UNCHANGED <<users, tokens, now, nextId, nextTok>>

\* A role gate on the route, then the handler (200). requireMinRole takes one
\* role: roles is a singleton for it; resource is what findById answers.
RoleGate(p, gate, roles, resource) ==
    /\ pc[p] = "gate"
    /\ gate \in RoleGateKinds
    /\ gate = "requireMinRole" => Cardinality(roles) = 1
    /\ gate # "isOwnerOrAdmin" => resource = NoResource
    /\ gate = "isOwnerOrAdmin" => roles = {}
    /\ gate # "isOwnerOrAdmin" => roles # {}
    /\ req' = [req EXCEPT ![p].gate = gate, ![p].roles = roles, ![p].resource = resource]
    /\ LET status == RoleGateStatus(loc[p].reqUser, gate, roles, resource) IN
       resp' = [resp EXCEPT ![p] = IF status = 200 THEN [NoResp EXCEPT !.status = 200, !.id = loc[p].reqUser.id, !.email = loc[p].reqUser.email, !.role = loc[p].reqUser.role] ELSE Fail(status, "gate_error")]
    /\ pc' = [pc EXCEPT ![p] = "idle"]
    /\ UNCHANGED <<users, tokens, now, nextId, nextTok, quota, loc>>

\* ------------------------------------------------------------ reset tokens
\* crypto.createHash('sha256').update(x).digest('hex'): h counts the digests taken.
Sha256(x) == [h |-> x.h + 1, v |-> x.v]

\* crypto.randomBytes(20).toString('hex'), the n-th value drawn.
RawSecret(n) == [h |-> 0, v |-> n]

\* user.constructor.modelName: 'Admin' | 'Teacher' | 'Student'
ModelName(role) == CASE role = "admin" -> "Admin" [] role = "teacher" -> "Teacher" [] role = "student" -> "Student" [] OTHER -> "User"

\* (tokenDoc.userModel || '').toLowerCase()
ToLowerCase(m) == CASE m = "Admin" -> "admin" [] m = "Teacher" -> "teacher" [] m = "Student" -> "student" [] OTHER -> "none"

\* Token pre('save'): a modified token value is replaced by its digest.
TokenPreSave(doc) == [doc EXCEPT !.token = Sha256(doc.token)]

\* AuthService.forgotPassword up to tokenDoc.save(): the lookup by email, the
\* fresh secret and the new Token document (expiresAt = Date.now() + 60 min).
ForgotStart(p, email, down) ==
    /\ CanStart(p)
    /\ nextTok <= MaxTokens
    /\ quota' = Spend(p)
    /\ req' = [req EXCEPT ![p] = [NoReq EXCEPT !.op = "forgotPassword", !.email = email, !.down = down]]
    /\ LET user == findUserByEmail(email, down)
       IN  IF user = NoUser
           THEN /\ resp' = [resp EXCEPT ![p] = Fail(404, "not_found")]
                /\ UNCHANGED <<pc, nextTok>>
                /\ loc' = [loc EXCEPT ![p] = NoLoc]
           ELSE /\ loc' = [loc EXCEPT ![p] = [NoLoc EXCEPT !.user = user, !.doc = [id |-> nextTok, user |-> user.id, userModel |-> ModelName(user.coll), token |-> RawSecret(nextTok), used |-> FALSE, expiresAt |-> now + ResetTTL]]]
                /\ nextTok' = nextTok + 1
                /\ pc' = [pc EXCEPT ![p] = "fp_save"]
                /\ resp' = [resp EXCEPT ![p] = Pending]
    /\ UNCHANGED <<users, tokens, now, nextId>>

\* tokenDoc.save()
ForgotSave(p) ==
    /\ pc[p] = "fp_save"
    /\ tokens' = tokens \cup {TokenPreSave(loc[p].doc)}
    /\ pc' = [pc EXCEPT ![p] = "fp_mail"]
    /\ UNCHANGED <<users, now, nextId, nextTok, quota, req, loc, resp>>

\* sendPasswordResetEmail: delivered, or the transport fails and the error
\* (500) propagates.
ForgotMail(p, delivered) ==
    /\ pc[p] = "fp_mail"
    /\ resp' = [resp EXCEPT ![p] = IF delivered THEN [NoResp EXCEPT !.status = 200, !.email = loc[p].user.email] ELSE Fail(500, "email_failed")]
    /\ pc' = [pc EXCEPT ![p] = "idle"]
    /\ UNCHANGED <<users, tokens, now, nextId, nextTok, quota, req, loc>>

\* Token.findOne({ token, type: 'password-reset', expiresAt: { $gt: Date.now() } })
FindResetTokenAnyExpiry(hash, t) == {d \in tokens : d.token = hash}

FindResetToken(hash, t) == {d \in tokens : d.token = hash /\ d.expiresAt > t}

\* Token.findOne({ token, type, used: false, expiresAt: { $gt: new Date() } })
FindUnusedResetToken(hash, t) == {d \in tokens : d.token = hash /\ ~d.used /\ d.expiresAt > t}

\* AuthService.resetPassword, the token lookup.
ResetFind(p, secret, newPassword) ==
    /\ CanStart(p)
    /\ quota' = Spend(p)
    /\ req' = [req EXCEPT ![p] = [NoReq EXCEPT !.op = "resetPassword", !.secret = secret, !.newPassword = newPassword]]
    /\ LET found == FindResetToken(Sha256(secret), now)
       IN  IF found = {}
           THEN /\ resp' = [resp EXCEPT ![p] = Fail(400, "invalid_or_expired")]
                /\ pc' = pc
                /\ loc' = [loc EXCEPT ![p] = NoLoc]
           ELSE /\ loc' = [loc EXCEPT ![p] = [NoLoc EXCEPT !.doc = CHOOSE d \in found : TRUE]]
                /\ pc' = [pc EXCEPT ![p] = "rp_user"]
                /\ resp' = [resp EXCEPT ![p] = Pending]
    /\ UNCHANGED <<users, tokens, now, nextId, nextTok>>

\* AuthService.resetPassword, the owner lookup by the token's collection tag.
ResetUser(p) ==
    /\ pc[p] = "rp_user"
    /\ LET user == findUserById(loc[p].doc.user, ToLowerCase(loc[p].doc.userModel))
       IN  IF user = NoUser
           THEN /\ resp' = [resp EXCEPT ![p] = Fail(404, "not_found")]
                /\ pc' = [pc EXCEPT ![p] = "idle"]
                /\ loc' = loc
           ELSE /\ loc' = [loc EXCEPT ![p].user = user]
                /\ pc' = [pc EXCEPT ![p] = "rp_save"]
                /\ resp' = resp
    /\ UNCHANGED <<users, tokens, now, nextId, nextTok, quota, req>>

\* AuthService.resetPassword: hash the new password and user.save().
ResetSave(p, s) ==
    /\ pc[p] = "rp_save"
    /\ IF \E u \in users : u.id = loc[p].user.id
       THEN /\ users' = SavePassword(loc[p].user.id, BcryptHash(req[p].newPassword, s), s)
            /\ pc' = [pc EXCEPT ![p] = "rp_delete"]
            /\ resp' = resp
       ELSE /\ users' = users
            /\ pc' = [pc EXCEPT ![p] = "idle"]
            /\ resp' = [resp EXCEPT ![p] = Fail(500, "server_error")]
    /\ UNCHANGED <<tokens, now, nextId, nextTok, quota, req, loc>>

\* AuthService.resetPassword: Token.deleteOne({ _id: tokenDoc._id }), then 200.
ResetDelete(p) ==
    /\ pc[p] = "rp_delete"
    /\ tokens' = {d \in tokens : d.id # loc[p].doc.id}
    /\ resp' = [resp EXCEPT ![p] = [NoResp EXCEPT !.status = 200]]
    /\ pc' = [pc EXCEPT ![p] = "idle"]
    /\ UNCHANGED <<users, now, nextId, nextTok, quota, req, loc>>

\* GET /auth/reset-password/:token
VerifyResetToken(p, secret) ==
    /\ CanStart(p)
    /\ quota' = Spend(p)
    /\ req' = [req EXCEPT ![p] = [NoReq EXCEPT !.op = "verifyResetToken", !.secret = secret]]
    /\ loc' = [loc EXCEPT ![p] = NoLoc]
    /\ LET found == FindUnusedResetToken(Sha256(secret), now)
       IN  IF found = {}
           THEN resp' = [resp EXCEPT ![p] = Fail(400, "invalid_or_expired")]
           ELSE resp' = [resp EXCEPT ![p] = [NoResp EXCEPT !.status = 200, !.email = findUserById((CHOOSE d \in found : TRUE).user, ToLowerCase((CHOOSE d \in found : TRUE).userModel)).email]]
    /\ UNCHANGED <<users, tokens, now, nextId, nextTok, pc>>

\* tokenSchema.methods.markAsUsed on a stored token document.
MarkAsUsed(id) ==
    /\ \E d \in tokens : d.id = id /\ ~d.used
    /\ tokens' = {IF d.id = id THEN [d EXCEPT !.used = TRUE] ELSE d : d \in tokens}
    /\ UNCHANGED <<users, now, nextId, nextTok, pc, quota, req, loc, resp>>

\* The TTL index on expiresAt (expireAfterSeconds: 0) removes an expired document.
Reaper(id) ==
    /\ \E d \in tokens : d.id = id /\ d.expiresAt <= now
    /\ tokens' = {d \in tokens : d.id # id}
    /\ UNCHANGED <<users, now, nextId, nextTok, pc, quota, req, loc, resp>>

\* ------------------------------------------------------------ clock
Tick ==
    /\ now < MaxTime
    /\ now' = now + 1
    /\ UNCHANGED <<users, tokens, nextId, nextTok, pc, quota, req, loc, resp>>

\* ------------------------------------------------------------ specifications
InitStore ==
    /\ users = {}
    /\ tokens = {}
    /\ now = 0
    /\ nextId = 1
    /\ nextTok = 1
    /\ pc = [p \in Procs |-> "idle"]
    /\ req = [p \in Procs |-> NoReq]
    /\ loc = [p \in Procs |-> NoLoc]
    /\ resp = [p \in Procs |-> NoResp]

\* Two concurrent POST /auth/register requests on an empty store.
InitReg == InitStore /\ quota = [p \in Procs |-> 1]

RegStart == \E p \in Procs, e \in Emails, pw \in Passwords, r \in RoleInputs, x \in RegExtras : RegisterStart(p, e, pw, r, x)

RegFind == \E p \in Procs, s \in Salts : RegisterFind(p, s, {})

RegGenId == \E p \in Procs : RegisterGenId(p)

RegInsert == \E p \in Procs, s \in Salts : RegisterInsert(p, s)

NextReg == RegStart \/ RegFind \/ RegGenId \/ RegInsert

SpecReg == InitReg /\ [][NextReg]_vars

\* One client, requests served one at a time, the storage always answering.
InitSeq == InitStore /\ quota = [p \in Procs |-> IF p = "p1" THEN -1 ELSE 0]

SeqRegStart == \E e \in Emails, pw \in Passwords, r \in RoleInputs : RegisterStart("p1", e, pw, r, DefaultExtra)

SeqRegFind == RegisterFind("p1", "s1", {})

SeqRegGenId == RegisterGenId("p1")

SeqRegInsert == RegisterInsert("p1", "s1")

SeqLogin == \E e \in Emails, pw \in Passwords : Login("p1", e, pw, {})

SeqChangePassword == \E i \in 1..MaxUsers, r \in ROLES, cur \in Passwords, new \in Passwords : ChangePassword("p1", i, r, cur, new, "s2")

SeqDeleteUser == \E i \in 1..MaxUsers : DeleteUser("p1", i)

NextSeq == SeqRegStart \/ SeqRegFind \/ SeqRegGenId \/ SeqRegInsert \/ SeqLogin \/ SeqChangePassword \/ SeqDeleteUser

SpecSeq == InitSeq /\ [][NextSeq]_vars

\* One client, requests served one at a time, while single collections may
\* fail to answer a lookup.
FltRegStart == \E e \in Emails, pw \in Passwords, r \in ROLES : RegisterStart("p1", e, pw, r, DefaultExtra)

FltRegFind == \E d \in Outages : RegisterFind("p1", "s1", d)

FltRegGenId == RegisterGenId("p1")

FltRegInsert == RegisterInsert("p1", "s1")

FltLogin == \E e \in Emails, pw \in Passwords, d \in Outages : Login("p1", e, pw, d)

FltForgotStart == \E e \in Emails, d \in Outages : ForgotStart("p1", e, d)

FltForgotSave == ForgotSave("p1")

FltForgotMail == \E ok \in BOOLEAN : ForgotMail("p1", ok)

NextFault == FltRegStart \/ FltRegFind \/ FltRegGenId \/ FltRegInsert \/ FltLogin \/ FltForgotStart \/ FltForgotSave \/ FltForgotMail

SpecFault == InitSeq /\ [][NextFault]_vars

\* Two clients that register and log in at the same time, the storage always
\* answering.
InitRace == InitStore /\ quota = [p \in Procs |-> 2]

RaceRegStart == \E p \in Procs, e \in {"a@x.com", "A@x.com"}, pw \in Passwords, r \in {"teacher", "student"} : RegisterStart(p, e, pw, r, DefaultExtra)

RaceRegFind == \E p \in Procs : RegisterFind(p, "s1", {})

RaceRegGenId == \E p \in Procs : RegisterGenId(p)

RaceRegInsert == \E p \in Procs : RegisterInsert(p, "s1")

RaceLogin == \E p \in Procs, e \in {"a@x.com", "A@x.com"}, pw \in Passwords : Login(p, e, pw, {})

NextRace == RaceRegStart \/ RaceRegFind \/ RaceRegGenId \/ RaceRegInsert \/ RaceLogin

SpecRace == InitRace /\ [][NextRace]_vars

\* One client against the middleware chain: protect, then a permission gate.
AuthRegStart == \E e \in {"a@x.com", "b@x.com"}, r \in ROLES, x \in RegExtras : (r = "admin" \/ x = DefaultExtra) /\ RegisterStart("p1", e, Plain("pw1"), r, x)

AuthRegFind == RegisterFind("p1", "s1", {})

AuthRegGenId == RegisterGenId("p1")

AuthRegInsert == RegisterInsert("p1", "s1")

AuthDeleteUser == \E i \in 1..MaxUsers : DeleteUser("p1", i)

AuthProtect == \E h \in Headers : Protect("p1", h.scheme, h.jwt)

AuthGate == \E g \in GateKinds, ps \in (SUBSET Permissions) \ {{}} : Gate("p1", g, ps)

NextAuth == AuthRegStart \/ AuthRegFind \/ AuthRegGenId \/ AuthRegInsert \/ AuthDeleteUser \/ AuthProtect \/ AuthGate \/ Tick

SpecAuth == InitSeq /\ [][NextAuth]_vars

\* Two clients against the password-reset endpoints, on a store that holds a
\* registered student and a registered admin.
Registered1 == [id |-> 1, coll |-> "student", email |-> "a@x.com", password |-> BcryptHash(Plain("pw1"), "s1"), roleType |-> "none", permissions |-> {}, serial |-> 1]

Registered2 == [id |-> 2, coll |-> "admin", email |-> "b@x.com", password |-> BcryptHash(Plain("pw2"), "s1"), roleType |-> "academic_admin", permissions |-> {}, serial |-> 0]

InitReset ==
    /\ users = {Registered1, Registered2}
    /\ tokens = {}
    /\ now = 0
    /\ nextId = 3
    /\ nextTok = 1
    /\ pc = [p \in Procs |-> "idle"]
    /\ quota = [p \in Procs |-> -1]
    /\ req = [p \in Procs |-> NoReq]
    /\ loc = [p \in Procs |-> NoLoc]
    /\ resp = [p \in Procs |-> NoResp]

RawSecrets == {RawSecret(n) : n \in 1..MaxTokens}

RstForgotStart == \E p \in Procs, e \in Emails : ForgotStart(p, e, {})

RstForgotSave == \E p \in Procs : ForgotSave(p)

RstForgotMail == \E p \in Procs, ok \in BOOLEAN : ForgotMail(p, ok)

RstResetFind == \E p \in Procs, x \in RawSecrets, pw \in Passwords : ResetFind(p, x, pw)

RstResetUser == \E p \in Procs : ResetUser(p)

RstResetSave == \E p \in Procs : ResetSave(p, "s1")

RstResetDelete == \E p \in Procs : ResetDelete(p)

RstVerify == \E p \in Procs, x \in RawSecrets : VerifyResetToken(p, x)

RstMarkAsUsed == \E i \in 1..MaxTokens : MarkAsUsed(i)

RstReaper == \E i \in 1..MaxTokens : Reaper(i)

NextReset == RstForgotStart \/ RstForgotSave \/ RstForgotMail \/ RstResetFind \/ RstResetUser \/ RstResetSave \/ RstResetDelete \/ RstVerify \/ RstMarkAsUsed \/ RstReaper \/ Tick

SpecReset == InitReset /\ [][NextReset]_vars

\* ------------------------------------------------------------ admin cap
\* Two clients register against a store that already holds one admin (an
\* earlier registration; its id is outside the ids handed out later).
FirstAdmin == [id |-> 0, coll |-> "admin", email |-> "c@x.com", password |-> BcryptHash(Plain("pw1"), "s1"), roleType |-> "academic_admin", permissions |-> {}, serial |-> 0]

InitCap ==
    /\ users = {FirstAdmin}
    /\ tokens = {}
    /\ now = 0
    /\ nextId = 1
    /\ nextTok = 1
    /\ pc = [p \in Procs |-> "idle"]
    /\ quota = [p \in Procs |-> 2]
    /\ req = [p \in Procs |-> NoReq]
    /\ loc = [p \in Procs |-> NoLoc]
    /\ resp = [p \in Procs |-> NoResp]

CapRegStart == \E p \in Procs, e \in {"a@x.com", "b@x.com"}, r \in {"admin", "teacher", "guest"} : RegisterStart(p, e, Plain("pw1"), r, DefaultExtra)

CapRegFind == \E p \in Procs : RegisterFind(p, "s1", {})

CapRegGenId == \E p \in Procs : RegisterGenId(p)

CapRegInsert == \E p \in Procs : RegisterInsert(p, "s1")

NextCap == CapRegStart \/ CapRegFind \/ CapRegGenId \/ CapRegInsert

SpecCap == InitCap /\ [][NextCap]_vars

\* One client registers identities and calls routes that mount a role gate,
\* behind protect or without it.
RbacRegStart == \E e \in {"a@x.com", "b@x.com"}, r \in ROLES : RegisterStart("p1", e, Plain("pw1"), r, DefaultExtra)

RbacRegFind == RegisterFind("p1", "s1", {})

RbacRegGenId == RegisterGenId("p1")

RbacRegInsert == RegisterInsert("p1", "s1")

RbacProtect == \E j \in {k \in JwtInputs : k.sig = "server" /\ k.exp = MaxTime + SessionTTL} : Protect("p1", "Bearer", j)

RbacAnonymous == Anonymous("p1")

RbacRoleGate == \E g \in RoleGateKinds, rs \in SUBSET ROLES, x \in Resources : RoleGate("p1", g, rs, x)

NextRbac == RbacRegStart \/ RbacRegFind \/ RbacRegGenId \/ RbacRegInsert \/ RbacProtect \/ RbacAnonymous \/ RbacRoleGate

SpecRbac == InitSeq /\ [][NextRbac]_vars

\* One client registers and deletes identities and refreshes session tokens
\* while the clock advances.
RefRegStart == \E e \in {"a@x.com", "b@x.com"}, r \in ROLES : RegisterStart("p1", e, Plain("pw1"), r, DefaultExtra)

RefRegFind == RegisterFind("p1", "s1", {})

RefRegGenId == RegisterGenId("p1")

RefRegInsert == RegisterInsert("p1", "s1")

RefDeleteUser == \E i \in 1..MaxUsers : DeleteUser("p1", i)

\* The cookies a request may carry: none, or a session token.
Cookies == {NoJwt} \cup {k \in JwtInputs : k.id = 1 /\ k.role = "student"}

\* The requests to refresh: any header without a cookie, or a cookie with a
\* header that carries no token.
RefreshInputs == {[scheme |-> h.scheme, jwt |-> h.jwt, cookie |-> NoJwt] : h \in Headers} \cup {[scheme |-> h, jwt |-> NoJwt, cookie |-> c] : h \in {"none", "Bearer"}, c \in Cookies}

RefRefresh == \E i \in RefreshInputs : Refresh("p1", i.scheme, i.jwt, i.cookie)

NextRefresh == RefRegStart \/ RefRegFind \/ RefRegGenId \/ RefRegInsert \/ RefDeleteUser \/ RefRefresh \/ Tick

SpecRefresh == InitSeq /\ [][NextRefresh]_vars

\* Session tokens against everything that could revoke them: client p1 calls
\* protected routes, logs out and refreshes; client p2 changes and resets
\* passwords and deletes identities; the clock advances.
InitSession ==
    /\ users = {Registered1, Registered2}
    /\ tokens = {}
    /\ now = 0
    /\ nextId = 3
    /\ nextTok = 1
    /\ pc = [p \in Procs |-> "idle"]
    /\ quota = [p \in Procs |-> -1]
    /\ req = [p \in Procs |-> NoReq]
    /\ loc = [p \in Procs |-> NoLoc]
    /\ resp = [p \in Procs |-> NoResp]

\* The session tokens the server signed for the two identities.
SessionTokens == {k \in JwtInputs : k.sig = "server" /\ ((k.id = 1 /\ k.role = "student") \/ (k.id = 2 /\ k.role = "admin"))}

SesProtect == \E j \in SessionTokens : Protect("p1", "Bearer", j)

SesGate == Gate("p1", "none", {})

SesLogout == Logout("p1")

SesRefresh == \E j \in SessionTokens : Refresh("p1", "Bearer", j, NoJwt)

SesChangePassword == \E u \in {Registered1, Registered2}, cur \in Passwords : ChangePassword("p2", u.id, u.coll, cur, Plain("pw2"), "s2")

SesForgotStart == \E e \in {"a@x.com", "b@x.com"} : ForgotStart("p2", e, {})

SesForgotSave == ForgotSave("p2")

SesForgotMail == ForgotMail("p2", TRUE)

SesResetFind == \E x \in RawSecrets : ResetFind("p2", x, Plain("pw2"))

SesResetUser == ResetUser("p2")

SesResetSave == ResetSave("p2", "s2")

SesResetDelete == ResetDelete("p2")

SesDeleteUser == \E i \in 1..MaxUsers : DeleteUser("p2", i)

NextSession == SesProtect \/ SesGate \/ SesLogout \/ SesRefresh \/ SesChangePassword \/ SesForgotStart \/ SesForgotSave \/ SesForgotMail \/ SesResetFind \/ SesResetUser \/ SesResetSave \/ SesResetDelete \/ SesDeleteUser \/ Tick

SpecSession == InitSession /\ [][NextSession]_vars

\* One client registers identities, an admin updates admin profiles through
\* PUT /auth/users/:id, and the identities log in.
UpdRegStart == \E e \in {"a@x.com", "b@x.com"}, r \in ROLES : RegisterStart("p1", e, Plain("pw1"), r, DefaultExtra)

UpdRegFind == RegisterFind("p1", "s1", {})

UpdRegGenId == RegisterGenId("p1")

UpdRegInsert == RegisterInsert("p1", "s1")

\* The password values a body may carry: none, a plaintext, a bcrypt hash.
UpdatePasswords == {Undefined, Plain("pw2"), BcryptHash(Plain("pw2"), "s2")}

UpdUpdateUser == \E i \in 1..MaxUsers, e \in {"", "b@x.com", "c@x.com"}, pw \in UpdatePasswords : UpdateUser("p1", "admin", i, e, pw, "s2")

UpdLogin == \E e \in {"a@x.com", "b@x.com", "c@x.com"}, pw \in Passwords : Login("p1", e, pw, {})

NextUpdate == UpdRegStart \/ UpdRegFind \/ UpdRegGenId \/ UpdRegInsert \/ UpdUpdateUser \/ UpdLogin

SpecUpdate == InitSeq /\ [][NextUpdate]_vars

\* One client registers admins with any permissions in the body and updates
\* their permissions through the admin controller.
PermissionBodies == {ps \in SUBSET PermissionInputs : Cardinality(ps) <= 2}

PermRegStart == \E e \in {"a@x.com", "b@x.com"}, ps \in PermissionBodies : RegisterStart("p1", e, Plain("pw1"), "admin", [roleType |-> "academic_admin", permissions |-> ps])

PermRegFind == RegisterFind("p1", "s1", {})

PermRegInsert == RegisterInsert("p1", "s1")

PermUpdate == \E i \in 1..MaxUsers, ps \in PermissionBodies : AdminUpdateUser("p1", i, "", TRUE, ps)

NextPerm == PermRegStart \/ PermRegFind \/ PermRegInsert \/ PermUpdate

SpecPerm == InitSeq /\ [][NextPerm]_vars

\* One client against every path that creates an identity or sets an email
\* or a password: register, the admin controller's createUser and updateUser,
\* createTeacher, PUT /auth/users/:id, and login.
AdmRegStart == \E e \in {"a@x.com", "b@x.com"}, r \in ROLES : RegisterStart("p1", e, Plain("pw1"), r, DefaultExtra)

AdmRegFind == RegisterFind("p1", "s1", {})

AdmRegGenId == RegisterGenId("p1")

AdmRegInsert == RegisterInsert("p1", "s1")

\* The passwords a body may carry on these paths.
BodyPasswords == {Plain("pw1"), HashLikePlain}

AdmCreateUser == \E e \in {"a@x.com", "b@x.com"}, pw \in BodyPasswords, r \in ROLES : CreateUser("p1", e, pw, r, "s1")

AdmCreateTeacher == \E e \in {"a@x.com", "b@x.com"}, pw \in BodyPasswords : CreateTeacher("p1", e, pw, "s1")

AdmUpdateUser == \E i \in 1..MaxUsers, e \in {"", "b@x.com"}, pw \in {Undefined} \cup BodyPasswords : UpdateUser("p1", "admin", i, e, pw, "s2")

AdmAdminUpdate == \E i \in 1..MaxUsers, e \in {"a@x.com", "b@x.com"} : AdminUpdateUser("p1", i, e, FALSE, {})

AdmLogin == \E e \in {"a@x.com", "b@x.com"}, pw \in BodyPasswords : Login("p1", e, pw, {})

NextAdmin == AdmRegStart \/ AdmRegFind \/ AdmRegGenId \/ AdmRegInsert \/ AdmCreateUser \/ AdmCreateTeacher \/ AdmUpdateUser \/ AdmAdminUpdate \/ AdmLogin

SpecAdmin == InitSeq /\ [][NextAdmin]_vars

\* Two clients against the password-reset endpoints while the student already
\* holds an outstanding reset token from an earlier forgotPassword (its id is
\* outside the ids handed out later).
EarlierToken == [id |-> 0, user |-> 1, userModel |-> "Student", token |-> Sha256(RawSecret(0)), used |-> FALSE, expiresAt |-> ResetTTL]

InitOlder ==
    /\ users = {Registered1, Registered2}
    /\ tokens = {EarlierToken}
    /\ now = 0
    /\ nextId = 3
    /\ nextTok = 1
    /\ pc = [p \in Procs |-> "idle"]
    /\ quota = [p \in Procs |-> 2]
    /\ req = [p \in Procs |-> NoReq]
    /\ loc = [p \in Procs |-> NoLoc]
    /\ resp = [p \in Procs |-> NoResp]

OldForgotStart == \E p \in Procs, e \in {"a@x.com", "b@x.com"} : ForgotStart(p, e, {})

OldForgotSave == \E p \in Procs : ForgotSave(p)

OldForgotMail == \E p \in Procs, ok \in BOOLEAN : ForgotMail(p, ok)

OldResetFind == \E p \in Procs, x \in RawSecrets \cup {RawSecret(0)} : ResetFind(p, x, Plain("pw2"))

OldResetUser == \E p \in Procs : ResetUser(p)

OldResetSave == \E p \in Procs : ResetSave(p, "s2")

OldResetDelete == \E p \in Procs : ResetDelete(p)

NextOlder == OldForgotStart \/ OldForgotSave \/ OldForgotMail \/ OldResetFind \/ OldResetUser \/ OldResetSave \/ OldResetDelete

SpecOlder == InitOlder /\ [][NextOlder]_vars









\* ------------------------------------------------------------ claims
Done(p) == pc[p] = "idle" /\ resp[p].status # 0

Registered(p) == Done(p) /\ req[p].op = "register" /\ resp[p].err \notin {"invalid_role", "admin_limit"}

WithEmail(e) == {u \in users : u.email = Lowercase(e)}

\* C1 (as claimed): of the resetPassword calls that present one raw token, in
\* any interleaving, one succeeds and every other one fails with 400.
C1_AtMostOnceReset == \A p \in Procs, q \in Procs : (p # q /\ Done(p) /\ Done(q) /\ req[p].op = "resetPassword" /\ req[q].op = "resetPassword" /\ req[p].secret = req[q].secret /\ resp[p].status = 200) => resp[q].status = 400

\* C2 (as claimed): two register calls carrying the same email, in any
\* interleaving, leave exactly one identity with that email; exactly one call
\* gets a session token and the other fails with the conflict error.
C2_OneWinnerPerEmail == \A p \in Procs, q \in Procs : (p # q /\ Registered(p) /\ Registered(q) /\ Lowercase(req[p].email) = Lowercase(req[q].email)) => (Cardinality(WithEmail(req[p].email)) = 1 /\ \E w \in {p, q}, l \in {p, q} : w # l /\ resp[w].status = 201 /\ resp[w].token # NoJwt /\ resp[l].err = "exists" /\ resp[l].token = NoJwt)

\* What a passing protect step guarantees about the token and the identity:
\* the server's signature, not expired at that moment, an identity with the
\* token's id stored in the collection of the token's role, and req.user built
\* from that identity and the token's role.
ValidCredential(p) == req'[p].jwt.sig = "server" /\ now < req'[p].jwt.exp /\ (\E u \in users : u.id = req'[p].jwt.id /\ u.coll = req'[p].jwt.role /\ loc'[p].reqUser = [id |-> u.id, email |-> u.email, role |-> req'[p].jwt.role])

\* Every protect run that does not pass answers 401.
RejectedIs401(p) == (pc[p] = "idle" /\ pc'[p] = "idle" /\ req'[p].op = "route" /\ <<req[p], resp[p]>> # <<req'[p], resp'[p]>>) => (resp'[p].status = 401 /\ resp'[p].id = 0)

\* C3 (as claimed): protect calls next() with req.user attached only for an
\* Authorization header of the Bearer scheme whose token carries the server's
\* signature, is not expired at that moment and names an identity stored in
\* the collection of the token's role; every other protect run answers 401.
C3_ProtectOnlyBearer == [][\A p \in Procs : ((pc[p] = "idle" /\ pc'[p] = "gate") => (req'[p].scheme = "Bearer" /\ ValidCredential(p))) /\ RejectedIs401(p)]_vars

\* The same with the scheme test the code makes (the header starts with 'Bearer').
ProtectOnlyValid == [][\A p \in Procs : ((pc[p] = "idle" /\ pc'[p] = "gate") => (StartsWithBearer(req'[p].scheme) /\ ValidCredential(p))) /\ RejectedIs401(p)]_vars

\* C4 (as claimed): changePassword answers 404 for a missing identity; for an
\* existing one it either answers 400 and the current password did not verify,
\* or succeeds and the stored hash verifies the new password.
C4_ChangePasswordContract == \A p \in Procs : (Done(p) /\ req[p].op = "changePassword") => LET S == {u \in users : u.id = req[p].id /\ u.coll = req[p].role} IN IF S = {} THEN resp[p].status = 404 ELSE \/ (resp[p].status = 200 /\ \A u \in S : BcryptCompare(req[p].newPassword, u.password) = "true") \/ (resp[p].status = 400 /\ \A u \in S : BcryptCompare(req[p].password, u.password) = "false")

\* C5 (as claimed): a request that protect authenticated as an admin whose
\* stored roleType is super_admin passes requirePermission and
\* requireAnyPermission, whatever its stored permissions.
C5_SuperAdminBypass == \A p \in Procs : (Done(p) /\ req[p].op = "route" /\ req[p].gate \in {"requirePermission", "requireAnyPermission"} /\ req[p].jwt.role = "admin" /\ \E u \in users : u.id = req[p].jwt.id /\ u.coll = "admin" /\ u.roleType = "super_admin") => resp[p].status = 200

\* C6 (as claimed): a token document whose used flag is set is never accepted
\* by resetPassword's lookup, so no reset proceeds on it.
C6_UsedTokenRejected == \A p \in Procs : pc[p] \in {"rp_user", "rp_save", "rp_delete"} => ~loc[p].doc.used

\* One step of client p, for C7: a resetPassword is accepted, and a
\* verifyResetToken answered 200, only on a stored document with the digest of
\* the presented secret and expiresAt strictly after now; a rejection is 400.
C7_Step(p) ==
    /\ (pc[p] = "idle" /\ pc'[p] = "rp_user") => (loc'[p].doc \in tokens /\ loc'[p].doc.token = Sha256(req'[p].secret) /\ loc'[p].doc.expiresAt > now)
    /\ (pc[p] = "idle" /\ req'[p].op = "verifyResetToken" /\ <<req[p], resp[p]>> # <<req'[p], resp'[p]>> /\ resp'[p].status # 400) => (resp'[p].status = 200 /\ \E d \in tokens : d.token = Sha256(req'[p].secret) /\ d.expiresAt > now)
    /\ (pc[p] = "idle" /\ req'[p].op = "resetPassword" /\ <<req[p], resp[p]>> # <<req'[p], resp'[p]>> /\ pc'[p] = "idle") => (resp'[p].status = 400)

\* C7: resetPassword and verifyResetToken accept a raw token only when a stored
\* document with its digest has expiresAt strictly after the current time and
\* answer 400 otherwise; expiresAt of a stored document never changes and the
\* clock never goes back, so an expired token stays rejected.
C7_ExpiredRejected == [][(\A p \in Procs : C7_Step(p)) /\ now' >= now /\ \A d \in tokens, e \in tokens' : d.id = e.id => e.expiresAt = d.expiresAt]_vars

C7_Witness == \E p \in Procs : Done(p) /\ req[p].op = "resetPassword" /\ resp[p].status = 400 /\ \E d \in tokens : d.token = Sha256(req[p].secret) /\ ~d.used /\ d.expiresAt <= now

\* One step of client p, for C8: the existence check and the insert.
C8_Step(p) ==
    /\ (pc[p] = "reg_find" /\ pc'[p] # "reg_find") => IF WithEmail(req[p].email) # {} THEN (pc'[p] = "idle" /\ resp'[p].status = 400 /\ resp'[p].err = "exists" /\ resp'[p].token = NoJwt /\ users' = users) ELSE pc'[p] \in {"reg_genid", "reg_insert"}
    /\ (pc[p] = "reg_insert" /\ pc'[p] # "reg_insert") => (resp'[p].status = 201 /\ verifyToken(resp'[p].token, now) /\ WithEmail(req[p].email) = {} /\ (\E u \in users' \ users : users' = users \cup {u} /\ u.email = Lowercase(req[p].email) /\ u.coll = req[p].role /\ u.id = resp'[p].id))

\* C8 (as claimed): when the email is held by any of the three collections,
\* AuthService.register fails with the conflict error, stores nothing and
\* issues no token, whatever the role; for an unused email it creates the
\* identity and answers 201 with a session token.
C8_RegisterConflict == [][\A p \in Procs : C8_Step(p)]_vars

\* C9 (as claimed): after a successful register, login with the same email and
\* password succeeds with the same identity id and role and a session token
\* that verifyToken accepts, whose id and role claims are that identity's.
C9_RoundTrip == \A p \in Procs : (Done(p) /\ req[p].op = "register" /\ resp[p].status = 201) => LET r == LoginOutcome(req[p].email, req[p].password, now, {}) IN r.status = 200 /\ r.id = resp[p].id /\ r.role = req[p].role /\ verifyToken(r.token, now) /\ r.token.id = resp[p].id /\ r.token.role = req[p].role

\* One completed login of client p, for C10.
C10_Login(p) ==
    /\ (resp[p].status = 404) <=> (WithEmail(req[p].email) = {})
    /\ (resp[p].status = 401) <=> (WithEmail(req[p].email) # {} /\ \A u \in WithEmail(req[p].email) : BcryptCompare(req[p].password, u.password) = "false")
    /\ (resp[p].status \in {401, 404}) => (resp[p].token = NoJwt)

\* C10 (as claimed): login answers 404 exactly when no collection holds the
\* email, and 401 exactly when an identity holds it and the password does not
\* verify; neither answer carries a token.
C10_LoginErrors == \A p \in Procs : (Done(p) /\ req[p].op = "login") => C10_Login(p)

\* One rejecting protect step of client p on a token that carries the server's
\* signature and is expired: 401, with a reason other than the one protect
\* gives for the same token wrongly signed.
C11_Step(p) == (pc[p] = "idle" /\ pc'[p] = "idle" /\ req'[p].op = "route" /\ <<req[p], resp[p]>> # <<req'[p], resp'[p]>> /\ StartsWithBearer(req'[p].scheme) /\ JwtVerifyError(req'[p].jwt, now) = "TokenExpiredError") => (resp'[p].status = 401 /\ resp'[p].err # ProtectCatch(VerifyTokenThrows([req'[p].jwt EXCEPT !.sig = "forged"], now)))

\* C11 (as claimed): when token verification fails protect answers 401 with a
\* reason that tells an expired token from an otherwise invalid one.
C11_DistinctReasons == [][\A p \in Procs : C11_Step(p)]_vars

\* The stored identity a token document refers to: its owner id in the
\* collection named by its owner-collection tag.
OwnerOf(doc, store) == {u \in store : u.id = doc.user /\ u.coll = ToLowerCase(doc.userModel)}

\* One step of client p, for C12: the save of a reset changes nothing but the
\* owner's password, and at the moment the reset answers 200 the consumed
\* token is gone, the owner's stored hash verifies the new password and login
\* with the new password gives the owner.
C12_Step(p) ==
    /\ (pc[p] = "rp_save" /\ pc'[p] = "rp_delete") => ((\A u \in users \ OwnerOf(loc[p].doc, users) : u \in users') /\ Cardinality(users') = Cardinality(users))
    /\ (pc[p] = "rp_delete" /\ pc'[p] = "idle") => (resp'[p].status = 200 /\ (\A d \in tokens' : d.id # loc[p].doc.id) /\ OwnerOf(loc[p].doc, users') # {} /\ (\A u \in OwnerOf(loc[p].doc, users') : BcryptCompare(req[p].newPassword, u.password) = "true" /\ LoginOutcome(u.email, req[p].newPassword, now, {}).id = u.id))

\* C12 (as claimed): a successful resetPassword changes the password of exactly
\* the identity the consumed token refers to; afterwards login for it succeeds
\* with the new password and the consumed token no longer exists.
C12_ResetFrame == [][\A p \in Procs : C12_Step(p)]_vars

\* One step of client p, for C13.  The lookup: 404 and no token for an email no
\* identity holds; otherwise the call goes on with a fresh raw secret and
\* expiresAt one reset window after now.  The save: exactly one new document,
\* owned by an identity that holds the email, tagged with its collection,
\* holding the digest of the raw secret and not the raw secret, unused.
C13_Step(p) ==
    /\ (pc[p] = "idle" /\ req'[p].op = "forgotPassword" /\ <<req[p], resp[p], loc[p], pc[p]>> # <<req'[p], resp'[p], loc'[p], pc'[p]>>) => IF WithEmail(req'[p].email) = {} THEN (resp'[p].status = 404 /\ pc'[p] = "idle" /\ tokens' = tokens) ELSE (pc'[p] = "fp_save" /\ tokens' = tokens /\ loc'[p].doc.expiresAt = now + ResetTTL /\ (\A d \in tokens : d.token # Sha256(loc'[p].doc.token)))
    /\ (pc[p] = "fp_save" /\ pc'[p] # "fp_save") => (\E d \in tokens' \ tokens : tokens' = tokens \cup {d} /\ (\E u \in WithEmail(req[p].email) : d.user = u.id /\ ToLowerCase(d.userModel) = u.coll) /\ d.token = Sha256(loc[p].doc.token) /\ d.token # loc[p].doc.token /\ ~d.used /\ d.expiresAt = loc[p].doc.expiresAt)

\* C13 (as claimed): forgotPassword fails 404 and creates no token for an
\* email matching no identity; for a matching email it creates exactly one
\* token document owned by the matched identity, holding the SHA-256 digest of
\* the raw secret, unused, expiring 60 minutes after its creation.
C13_ForgotToken == [][\A p \in Procs : C13_Step(p)]_vars

\* One verification step of client p: both stores are left as they are, the
\* answer is 400 exactly when no stored document with the digest is unexpired
\* and unused, and 200 otherwise.
VerifyLeavesStore(p) == (pc[p] = "idle" /\ req'[p].op = "verifyResetToken" /\ <<req[p], resp[p]>> # <<req'[p], resp'[p]>>) => (tokens' = tokens /\ users' = users /\ resp'[p].status \in {200, 400} /\ ((resp'[p].status = 400) <=> ~(\E d \in tokens : d.token = Sha256(req'[p].secret) /\ ~d.used /\ d.expiresAt > now)))

\* A reset of client p answers 200 only if no other client's reset of the same
\* raw token has answered 200.
ConsumedOnce(p) == (pc[p] = "rp_delete" /\ pc'[p] = "idle" /\ resp'[p].status = 200) => ~(\E q \in Procs \ {p} : Done(q) /\ req[q].op = "resetPassword" /\ req[q].secret = req[p].secret /\ resp[q].status = 200)

\* C14 (as claimed): GET /auth/reset-password/:token changes no token and
\* answers 400 for a missing, expired or used one; a valid token is consumed
\* by POST /auth/reset-password/:token exactly once.
C14_VerifyDoesNotConsume == [][\A p \in Procs : VerifyLeavesStore(p) /\ ConsumedOnce(p)]_vars

\* The part of C14 that is about the GET alone.
VerifyOnly == [][\A p \in Procs : VerifyLeavesStore(p)]_vars

Admins(store) == {u \in store : u.coll = "admin"}

\* A registration of an admin that arrives while AdminCap admins are stored is
\* answered 403 and stores nothing.
CapRejects(p) == (pc[p] = "idle" /\ req'[p].op = "register" /\ <<req[p], resp[p]>> # <<req'[p], resp'[p]>> /\ req'[p].role = "admin" /\ Cardinality(Admins(users)) >= AdminCap) => (resp'[p].status = 403 /\ pc'[p] = "idle" /\ users' = users)

\* C15 (as claimed): whatever the interleaving of POST /auth/register calls,
\* at most AdminCap admin accounts are stored, and an admin registration that
\* arrives while AdminCap exist fails with 403 and stores nothing.
C15_AdminCap == [][Cardinality(Admins(users')) <= AdminCap /\ (\A p \in Procs : CapRejects(p))]_vars

\* The rejection half of C15 alone.
CapRejectsOnly == [][\A p \in Procs : CapRejects(p)]_vars

\* Client p's request leaves the gate of its route.
GateStep(p, kinds) == pc[p] = "gate" /\ pc'[p] = "idle" /\ req'[p].gate \in kinds

\* The caller of p's request: no user on a route without protect, otherwise
\* the role of the verified token.
NoCaller(p) == req[p].op = "open_route"

CallerRole(p) == req[p].jwt.role

\* C16 (as claimed): requireMinRole(r) answers 401 when the request has no
\* user; otherwise it passes exactly when the caller's rank (admin 3,
\* teacher 2, student 1) is at least the rank of r, and answers 403 if not.
C16_Step(p) == GateStep(p, {"requireMinRole"}) => (resp'[p].status = (IF NoCaller(p) THEN 401 ELSE IF \A r \in req'[p].roles : ROLE_HIERARCHY[CallerRole(p)] >= ROLE_HIERARCHY[r] THEN 200 ELSE 403))

C16_MinRole == [][\A p \in Procs : C16_Step(p)]_vars

\* C17 (as claimed): isOwnerOrAdmin passes every admin; for another caller it
\* answers 404 when the resource is missing, passes when the resource's owner
\* field holds the caller's id and answers 403 when it holds another id.
C17_Step(p) == (GateStep(p, {"isOwnerOrAdmin"}) /\ ~NoCaller(p)) => (IF CallerRole(p) = "admin" THEN resp'[p].status = 200 ELSE IF ~req'[p].resource.found THEN resp'[p].status = 404 ELSE ((req'[p].resource.user # 0 /\ req'[p].resource.owner = 0) => resp'[p].status = (IF req'[p].resource.user = req[p].jwt.id THEN 200 ELSE 403)))

C17_OwnerOrAdmin == [][\A p \in Procs : C17_Step(p)]_vars

\* The permissions stored for the caller of p's request.
StoredPermissions(p) == UNION {u.permissions : u \in {v \in users : v.id = req[p].jwt.id /\ v.coll = req[p].jwt.role}}

CallerIsSuperAdmin(p) == \E u \in users : u.id = req[p].jwt.id /\ u.coll = "admin" /\ req[p].jwt.role = "admin" /\ u.roleType = "super_admin"

\* C18 (as claimed): for a caller who is not a super admin,
\* requirePermission(q) passes exactly when the caller's permissions contain
\* q and requireAnyPermission(qs) exactly when they contain one of qs; the
\* answer is 403 otherwise.
C18_Step(p) == (GateStep(p, {"requirePermission", "requireAnyPermission"}) /\ ~CallerIsSuperAdmin(p)) => (resp'[p].status = (IF req'[p].perms \cap StoredPermissions(p) # {} THEN 200 ELSE 403))

C18_PermissionGates == [][\A p \in Procs : C18_Step(p)]_vars

\* C19 (as claimed): requireRole(...roles) and authorize(...roles) answer 401
\* when the request has no user; otherwise they pass exactly when the
\* caller's role is one of roles, and answer 403 if not.
C19_Step(p) == GateStep(p, {"requireRole", "authorize"}) => (resp'[p].status = (IF NoCaller(p) THEN 401 ELSE IF CallerRole(p) \in req'[p].roles THEN 200 ELSE 403))

C19_RoleGates == [][\A p \in Procs : C19_Step(p)]_vars

\* The authorize half of C19 alone.
AuthorizeOnly == [][\A p \in Procs : GateStep(p, {"authorize"}) => C19_Step(p)]_vars

\* The token a refresh request presents, read off the request.
Presented(r) == IF r.scheme # "none" /\ r.jwt # NoJwt THEN r.jwt ELSE r.cookie

Exists(tok) == \E u \in users : u.id = tok.id /\ u.coll = tok.role

\* What C20 claims of one refresh answered at time t for the token tok.
C20_Answer(tok, t, r) ==
    IF tok = NoJwt \/ tok.sig # "server" \/ t >= tok.exp THEN r.status = 401 /\ r.token = NoJwt
    ELSE IF ~Exists(tok) THEN r.status = 404 /\ r.token = NoJwt
    ELSE r.status = 200 /\ r.token = [id |-> tok.id, role |-> tok.role, exp |-> t + SessionTTL, sig |-> "server"]

C20_Step(p) == (pc[p] = "idle" /\ pc'[p] = "idle" /\ req'[p].op = "refreshToken" /\ <<req[p], resp[p]>> # <<req'[p], resp'[p]>>) => (users' = users /\ tokens' = tokens /\ C20_Answer(Presented(req'[p]), now, resp'[p]))

\* C20: refreshToken answers 401 for a missing, invalid or expired token, 404
\* when the identity of the claims is no longer stored, and otherwise 200 with
\* a new session token carrying the id and role of the old one and a fresh
\* expiry; it leaves the stored identities and tokens as they are.
C20_Refresh == [][\A p \in Procs : C20_Step(p)]_vars

\* A refresh answered 200 with a token for the same id and role that expires
\* later than the one presented.
C20_Witness == \E p \in Procs : Done(p) /\ req[p].op = "refreshToken" /\ resp[p].status = 200 /\ resp[p].token.exp > Presented(req[p]).exp /\ resp[p].token.id = Presented(req[p]).id /\ resp[p].token.role = Presented(req[p]).role

\* A protect step of client p with a Bearer token the server signed, not yet
\* expired, whose identity is stored, passes and attaches that identity.
C21_Step(p) == (pc[p] = "idle" /\ req'[p].op = "route" /\ <<req[p], resp[p], pc[p]>> # <<req'[p], resp'[p], pc'[p]>> /\ req'[p].scheme = "Bearer" /\ req'[p].jwt.sig = "server" /\ now < req'[p].jwt.exp /\ Exists(req'[p].jwt)) => (pc'[p] = "gate" /\ loc'[p].reqUser.id = req'[p].jwt.id /\ loc'[p].reqUser.role = req'[p].jwt.role)

\* Logout, refresh and the password operations remove no identity.
C21_Keeps(p) == (req'[p].op \in {"logout", "refreshToken", "changePassword", "forgotPassword", "resetPassword"} /\ <<req[p], resp[p], pc[p]>> # <<req'[p], resp'[p], pc'[p]>>) => {<<u.id, u.coll>> : u \in users'} = {<<u.id, u.coll>> : u \in users}

\* C21: there is no server-side revocation. Whatever logout, refreshToken,
\* changePassword or resetPassword happened before, protect accepts every
\* server-signed token that has not expired and whose identity still exists.
C21_NoRevocation == [][\A p \in Procs : C21_Step(p) /\ C21_Keeps(p)]_vars

\* A token of an identity is accepted by protect while another client has
\* completed a password reset that left that identity with the new password.
C21_Witness == \E p \in Procs, q \in Procs : p # q /\ pc[p] = "gate" /\ Done(q) /\ req[q].op = "resetPassword" /\ resp[q].status = 200 /\ (\E u \in users : u.id = req[p].jwt.id /\ BcryptCompare(req[q].newPassword, u.password) = "true" /\ BcryptCompare(Plain("pw1"), u.password) = "false") /\ now > 0

\* During findUserByEmail(email) a findOne that throws was reached: a failing
\* collection is not preceded by a working collection that holds the email.
QueriedFailure(email, down) == \E i \in 1..Len(userModels) : userModels[i] \in down /\ (\A j \in 1..(i - 1) : userModels[j] \in down \/ InCollection(userModels[j], email) = {})

\* Client p's step runs the identity lookup of login, forgotPassword or register.
LookupStep(p) == (pc[p] = "idle" /\ req'[p].op \in {"login", "forgotPassword"} /\ <<req[p], resp[p], pc[p]>> # <<req'[p], resp'[p], pc'[p]>>) \/ (pc[p] = "reg_find" /\ pc'[p] # "reg_find")

\* C22 (as claimed): a storage failure met during the identity lookup ends the
\* operation with a service-unavailable answer (503): it is not answered as
\* NotFound or Unauthorized and the operation does not go on.
C22_Step(p) == (LookupStep(p) /\ QueriedFailure(req'[p].email, req'[p].down)) => (resp'[p].status = 503 /\ pc'[p] = "idle")

C22_ServiceUnavailable == [][\A p \in Procs : C22_Step(p)]_vars

\* The stored password of every identity, by id.
StoredPasswords(store) == {<<u.id, u.password>> : u \in store}

\* A save that does not modify the password leaves every stored hash as it is.
C23_Unmodified(p) == (pc[p] = "idle" /\ req'[p].op = "updateUser" /\ <<req[p], resp[p]>> # <<req'[p], resp'[p]>> /\ req'[p].password = Undefined) => StoredPasswords(users') = StoredPasswords(users)

\* A save of a value that is already a hash stores that value: the update of
\* a hashed password, and the insert of the hash AuthService.register made,
\* which still verifies the submitted plaintext.
C23_NoRehash(p) == ((pc[p] = "idle" /\ req'[p].op = "updateUser" /\ resp'[p].status = 200 /\ <<req[p], resp[p]>> # <<req'[p], resp'[p]>> /\ req'[p].password # Undefined /\ req'[p].password.depth >= 1) => (\E u \in users' : u.id = req'[p].id /\ u.password = req'[p].password)) /\ ((pc[p] = "reg_insert" /\ resp'[p].status = 201) => (\E u \in users' : u.id = resp'[p].id /\ u.password = loc[p].hashed /\ BcryptCompare(req[p].password, u.password) = "true"))

\* C23: idempotent hashing. A save that does not modify the password leaves
\* the stored hash unchanged (so what verified before still verifies), and a
\* password value that is already a hash is stored without being hashed again.
C23_IdempotentHash == [][\A p \in Procs : C23_Unmodified(p) /\ C23_NoRehash(p)]_vars

\* An admin whose email was changed by an update without a password still
\* holds the hash of the password it registered with.
C23_Witness == \E p \in Procs : Done(p) /\ req[p].op = "updateUser" /\ resp[p].status = 200 /\ req[p].password = Undefined /\ req[p].email = "c@x.com" /\ (\E u \in users : u.id = req[p].id /\ u.email = "c@x.com" /\ u.password = BcryptHash(Plain("pw1"), "s1"))

\* The canonical permission of a legacy alias, whatever its case.
IsAlias(v) == PermLower(v) \in DOMAIN PERMISSION_ALIASES

\* What C24 claims of normalizePermission for one value.
C24_Value(v) == (IsAlias(v) => normalizePermission(v) = PERMISSION_ALIASES[PermLower(v)]) /\ (~IsAlias(v) => normalizePermission(v) = v) /\ normalizePermission(normalizePermission(v)) = normalizePermission(v)

\* Client p's step creates or updates an admin with permissions in the body.
C24_Saves(p) == (pc[p] = "reg_insert" /\ pc'[p] = "idle" /\ req[p].role = "admin") \/ (pc[p] = "idle" /\ req'[p].op = "adminUpdateUser" /\ <<req[p], resp[p]>> # <<req'[p], resp'[p]>> /\ (\E u \in users : u.id = req'[p].id /\ u.coll = "admin"))

\* C24 (as claimed): normalizePermission maps every alias to its canonical
\* permission, leaves every other value unchanged and is idempotent, and an
\* admin created or updated with permissions ['settings'] is stored with
\* ['manage_settings'].
C24_Step(p) == C24_Saves(p) => ((\A v \in req'[p].extra.permissions : C24_Value(v)) /\ ((req'[p].extra.permissions = {"settings"} /\ resp'[p].status \in {200, 201}) => (\E u \in users' : u.id = resp'[p].id /\ u.permissions = {"manage_settings"})))

C24_Normalization == [][\A p \in Procs : C24_Step(p)]_vars

\* C25 (as claimed): a registration whose body has no role field is taken as
\* a student registration: the controller lets it through, and when it is
\* answered 201 the identity is a student and the token's role claim is
\* 'student'.
C25_Step(p) == ((pc[p] = "idle" /\ req'[p].op = "register" /\ <<req[p], resp[p], pc[p]>> # <<req'[p], resp'[p], pc'[p]>> /\ req'[p].role = "undefined") => (pc'[p] = "reg_find" /\ resp'[p].status # 400)) /\ ((pc[p] = "reg_insert" /\ req[p].role = "undefined" /\ resp'[p].status = 201) => (resp'[p].token.role = "student" /\ (\E u \in users' : u.id = resp'[p].id /\ u.coll = "student")))

C25_DefaultRole == [][\A p \in Procs : C25_Step(p)]_vars

\* C26 (as claimed): no email is held by two identities, in one collection or
\* in two.
C26_UniqueEmail == \A u \in users, v \in users : u.id # v.id => u.email # v.email

\* C30 (as claimed): the password stored for an identity is a salted hash of
\* a submitted plaintext and never the plaintext, whatever the plaintext is.
C30_NeverPlaintext == \A u \in users : u.password.depth = 1 /\ u.password.salt # ""

\* Another client has completed a reset for the identity that owns the stored
\* token with the digest of x, and that token is older than the one consumed.
ResetSince(p, x) == \E q \in Procs \ {p} : Done(q) /\ req[q].op = "resetPassword" /\ resp[q].status = 200 /\ (\E d \in tokens : d.token = Sha256(x) /\ d.user = loc[q].doc.user /\ d.userModel = loc[q].doc.userModel /\ d.id < loc[q].doc.id)

\* C27 (as claimed): once a resetPassword for an identity has succeeded, a
\* resetPassword presenting an older outstanding token of the same identity
\* fails with 400.
C27_Step(p) == (pc[p] = "idle" /\ req'[p].op = "resetPassword" /\ <<req[p], resp[p], pc[p]>> # <<req'[p], resp'[p], pc'[p]>> /\ ResetSince(p, req'[p].secret)) => (resp'[p].status = 400 /\ pc'[p] = "idle")

C27_OlderTokensDie == [][\A p \in Procs : C27_Step(p)]_vars

\* C28 (as claimed): when forgotPassword fails because the email could not be
\* sent, the token store is as it was before the call: the token the call
\* created is not stored.
C28_Step(p) == (pc[p] = "fp_mail" /\ pc'[p] = "idle" /\ resp'[p].status # 200) => ~(\E d \in tokens' : d.id = loc[p].doc.id)

C28_FailedMailLeavesNothing == [][\A p \in Procs : C28_Step(p)]_vars

\* The generated studentId / employeeId of the stored students and teachers
\* are pairwise distinct within their collection.
SerialsDistinct == \A u, v \in users : (u.id # v.id /\ u.coll = v.coll /\ u.coll \in {"student", "teacher"}) => u.serial # v.serial

\* A student or teacher creation reaches its insert with an email that no
\* stored identity and no other request in flight holds.
FreshCreation(p) == pc[p] = "reg_insert" /\ req[p].role \in {"student", "teacher"} /\ (\A u \in users : u.email # Lowercase(req[p].email)) /\ (\A q \in Procs \ {p} : req[q].email # req[p].email)

\* C29 (as claimed): under every interleaving of student (or teacher)
\* creations with pairwise distinct emails, every creation succeeds (201) and
\* the generated studentId / employeeId values are pairwise distinct.
C29_Step(p) == (FreshCreation(p) /\ pc'[p] = "idle") => resp'[p].status = 201

C29_ConcurrentCreations == [][(\A p \in Procs : C29_Step(p)) /\ SerialsDistinct']_vars

====
